---- MODULE Spec2Model ----
(***************************************************************************)
(* Model of sentry-kubernetes: the per-event pipeline that turns a         *)
(* Kubernetes Event into a Sentry event and/or a breadcrumb.               *)
(*                                                                         *)
(*   src/src/sentry_event.rs  From<Event> for SentryEvent, From<&SentryEvent>*)
(*                            for v7::Event, obj_name, metadata_map        *)
(*   src/src/processor.rs     Processor::process (async, two awaits)       *)
(*   src/src/main.rs          watch_loop's try_for_each closure, main loop *)
(*                                                                         *)
(* Option<T> is a sequence of length 0 (None) or 1 (Some(v)).  Vec<String>  *)
(* configuration lists are sets: the code only calls contains/is_empty/any. *)
(***************************************************************************)
EXTENDS Naturals, Sequences, FiniteSets, TLC

VARIABLES cfg, pc, raw, hostname, node_labels, sent, captured, crumb, calls,
          lastAdmitted, maxAdmitted

vars == <<cfg, pc, raw, hostname, node_labels, sent, captured, crumb, calls,
          lastAdmitted, maxAdmitted>>

(***************************************************************************)
(* Bounds                                                                  *)
(***************************************************************************)
\* creation timestamps are 1..MaxTime (an event may also carry none)
MaxTime == 2

\* concurrently running calls of Processor::process; the event stream of
\* main.rs is driven by the first one alone (try_for_each is sequential)
Tasks == {"t1", "t2"}
StreamTasks == {"t1"}

(***************************************************************************)
(* Option helpers                                                          *)
(***************************************************************************)
None == <<>>
Some(v) == <<v>>
IsSome(o) == Len(o) = 1
IsNone(o) == Len(o) = 0
UnwrapOr(o, d) == IF IsSome(o) THEN o[1] ELSE d
\* Option::or
OrElse(o, p) == IF IsSome(o) THEN o ELSE p
\* String::default()
UnwrapOrDefault(o) == UnwrapOr(o, "")
Opt(S) == {None} \cup {Some(v) : v \in S}

(***************************************************************************)
(* Inputs: the fields of k8s Event the code reads                          *)
(***************************************************************************)
TypeStrings == {"Warning", "Normal", "Error", "Bogus"}
ComponentStrings == {"kubelet"}
ReasonStrings == {"Failed"}
HostStrings == {"node1"}
KindStrings == {"Pod", "Node"}
NameStrings == {"web-1"}
MessageStrings == {"Back-off"}
Times == 1..MaxTime

RawEvents ==
    [ type_              : Opt(TypeStrings),
      component          : Opt(ComponentStrings),
      host               : Opt(HostStrings),
      reason             : Opt(ReasonStrings),
      inv_namespace      : Opt({"prod"}),
      meta_namespace     : Opt({"staging"}),
      kind               : {Some(k) : k \in KindStrings},
      name               : {Some(n) : n \in NameStrings},
      message            : {Some(m) : m \in MessageStrings},
      creation_timestamp : Opt(Times) ]

\* the slot of a task that holds no event
NoRaw ==
    [ type_ |-> None, component |-> None, host |-> None, reason |-> None,
      inv_namespace |-> None, meta_namespace |-> None, kind |-> None,
      name |-> None, message |-> None, creation_timestamp |-> None ]

\* the five env lists read by watch_loop (list_env) / given to the builder
Configs ==
    [ event_namespaces   : {{}, {"prod"}, {"default"}},
      exclude_components : {{}, {"kubelet"}},
      exclude_reasons    : {{}, {"Failed"}},
      exclude_namespaces : {{}, {"prod"}},
      event_levels       : {{"warning", "error"}, {"warning"}, {"Warning"}, {}} ]

(***************************************************************************)
(* sentry_event.rs: From<Event> for SentryEvent                            *)
(***************************************************************************)
\* mutant: the kind is not lowercased
ToLowercaseIdentity(s) == s

\* str::to_lowercase on the kinds the model draws (its other strings are
\* lowercase already)
ToLowercase(s) ==
    CASE s = "Warning" -> "warning"
      [] s = "WARNING" -> "warning"
      [] s = "Normal"  -> "normal"
      [] s = "NORMAL"  -> "normal"
      [] s = "Error"   -> "error"
      [] s = "Fatal"   -> "fatal"
      [] s = "Debug"   -> "debug"
      [] s = "Info"    -> "info"
      [] s = "Bogus"   -> "bogus"
      [] OTHER         -> s

\* sentry::Level::from_str: Ok(level) as Some, Err(ParseLevelError) as None
LevelFromStr(s) ==
    CASE s = "debug"   -> Some("Debug")
      [] s = "info"    -> Some("Info")
      [] s = "log"     -> Some("Info")
      [] s = "warning" -> Some("Warning")
      [] s = "error"   -> Some("Error")
      [] s = "fatal"   -> Some("Fatal")
      [] OTHER         -> None

\* Display for sentry::Level
LevelToString(l) ==
    CASE l = "Debug"   -> "debug"
      [] l = "Info"    -> "info"
      [] l = "Warning" -> "warning"
      [] l = "Error"   -> "error"
      [] l = "Fatal"   -> "fatal"

\* let event_type = value.type_.unwrap_or_default().to_lowercase();
EventType(r) == ToLowercase(UnwrapOrDefault(r.type_))

\* let level = if event_type == "normal" { "info" } else { event_type }
LevelName(r) == IF EventType(r) = "normal" THEN "info" ELSE EventType(r)

\* Level::from_str(&level).unwrap() panics exactly when this is FALSE
LevelParses(r) == IsSome(LevelFromStr(LevelName(r)))

\* involved_object.namespace.or(meta.namespace).unwrap_or_else(|| "default")
Namespace(r) == UnwrapOr(OrElse(r.inv_namespace, r.meta_namespace), "default")

\* ObjectMeta as metadata_map serialises it: the fields the model carries
Metadata(r) ==
    [ namespace |-> r.meta_namespace,
      creationTimestamp |-> r.creation_timestamp ]

\* the SentryEvent built from a raw event whose level parses.  source_host is
\* the String of sentry_event.rs ("n/a" when the source gives no host);
\* Processor::process keeps its own Option-typed hostname beside it.
SentryEventFrom(r) ==
    [ type_              |-> EventType(r),
      level              |-> LevelFromStr(LevelName(r))[1],
      component          |-> UnwrapOrDefault(r.component),
      source_host        |-> UnwrapOr(r.host, "n/a"),
      reason             |-> UnwrapOrDefault(r.reason),
      metadata           |-> Metadata(r),
      namespace          |-> Namespace(r),
      kind               |-> r.kind,
      name               |-> UnwrapOrDefault(r.name),
      message            |-> r.message,
      creation_timestamp |-> r.creation_timestamp ]

(***************************************************************************)
(* sentry_event.rs: obj_name and From<&SentryEvent> for v7::Event          *)
(***************************************************************************)
\* mutant: only the name is tested
obj_nameTestsNameOnly(se) ==
    IF se.name # ""
    THEN se.namespace \o "/" \o se.name
    ELSE se.namespace

obj_name(se) ==
    IF se.namespace # "" /\ se.name # ""
    THEN se.namespace \o "/" \o se.name
    ELSE se.namespace

\* mutant: namespace is pushed before reason
FingerprintNamespaceFirst(se) ==
    (IF se.namespace # "" THEN <<se.namespace>> ELSE <<>>)
    \o (IF se.reason # "" THEN <<se.reason>> ELSE <<>>)
    \o (IF se.name # "" THEN <<se.name>> ELSE <<>>)
    \o (IF IsSome(se.kind) /\ se.kind[1] # "" THEN <<se.kind[1]>> ELSE <<>>)

\* the fingerprint vector, pushed in the order reason, namespace, name, kind
Fingerprint(se) ==
    (IF se.reason # "" THEN <<se.reason>> ELSE <<>>)
    \o (IF se.namespace # "" THEN <<se.namespace>> ELSE <<>>)
    \o (IF se.name # "" THEN <<se.name>> ELSE <<>>)
    \o (IF IsSome(se.kind) /\ se.kind[1] # "" THEN <<se.kind[1]>> ELSE <<>>)

\* the tag map as a set of <<key, value>> pairs
Tags(se, cluster) ==
    (IF cluster # "" THEN {<<"cluster", cluster>>} ELSE {})
    \cup (IF se.component # "" THEN {<<"component", se.component>>} ELSE {})
    \cup (IF se.reason # "" THEN {<<"reason", se.reason>>} ELSE {})
    \cup (IF se.namespace # "" THEN {<<"namespace", se.namespace>>} ELSE {})
    \cup (IF se.name # "" THEN {<<"name", se.name>>} ELSE {})
    \cup (IF IsSome(se.kind) /\ se.kind[1] # ""
          THEN {<<"kind", se.kind[1]>>} ELSE {})

\* CLUSTER_NAME (env, empty when unset)
ClusterName == ""

\* v7::Event::from(&sentry_event); timestamp None stands for the default
\* v7::Event::new() leaves in place
ToV7(se) ==
    [ message     |-> se.message,
      culprit     |-> obj_name(se) \o " " \o se.reason,
      server_name |-> se.source_host,
      timestamp   |-> se.creation_timestamp,
      extra       |-> se.metadata,
      fingerprint |-> Fingerprint(se),
      level       |-> se.level,
      tags        |-> Tags(se, ClusterName) ]

\* the Breadcrumb both handlers build; timestamp None stands for the default
\* of Breadcrumb::default()
BreadcrumbOf(se) ==
    [ name      |-> se.name,
      namespace |-> se.namespace,
      level     |-> se.level,
      message   |-> se.message,
      timestamp |-> se.creation_timestamp ]

(***************************************************************************)
(* The filter chain and the level test                                     *)
(***************************************************************************)
\* mutant: the forced escalation of Error is tested before the exclusions
SuppressedAfterEscalation(se, c) ==
    /\ se.level # "Error"
    /\ \/ se.component \in c.exclude_components
       \/ se.reason \in c.exclude_reasons
       \/ se.namespace \in c.exclude_namespaces
       \/ (c.event_namespaces # {} /\ se.namespace \notin c.event_namespaces)

\* mutant: the namespace deny-list test is missing
SuppressedWithoutDenyList(se, c) ==
    \/ se.component \in c.exclude_components
    \/ se.reason \in c.exclude_reasons
    \/ (c.event_namespaces # {} /\ se.namespace \notin c.event_namespaces)

\* mutant: the allow-list test is missing
SuppressedWithoutAllowList(se, c) ==
    \/ se.component \in c.exclude_components
    \/ se.reason \in c.exclude_reasons
    \/ se.namespace \in c.exclude_namespaces

\* processor.rs: the four early returns of Processor::process, in order
Suppressed(se, c) ==
    \/ se.component \in c.exclude_components
    \/ se.reason \in c.exclude_reasons
    \/ se.namespace \in c.exclude_namespaces
    \/ (c.event_namespaces # {} /\ se.namespace \notin c.event_namespaces)

\* mutant: no forced escalation of Error
ShouldSendListedOnly(se, c) ==
    \E e \in c.event_levels : e = LevelToString(se.level)

\* mutant: the accepted levels are compared ignoring case
ShouldSendIgnoringCase(se, c) ==
    \/ \E e \in c.event_levels : ToLowercase(e) = LevelToString(se.level)
    \/ se.level = "Error"

\* processor.rs: event_levels.iter().any(|e| e == level.to_string()) || Error
ShouldSend(se, c) ==
    \/ \E e \in c.event_levels : e = LevelToString(se.level)
    \/ se.level = "Error"

\* main.rs: the closure's one early return
WatchSuppressed(se, c) ==
    \/ se.component \in c.exclude_components
    \/ se.reason \in c.exclude_reasons
    \/ se.namespace \in c.exclude_namespaces
    \/ (c.event_namespaces # {} /\ se.namespace \notin c.event_namespaces)

\* main.rs: event_levels.contains(&level.to_string()) || level == Error
WatchShouldSend(se, c) ==
    \/ LevelToString(se.level) \in c.event_levels
    \/ se.level = "Error"

(***************************************************************************)
(* Processor::process, one action per stretch between two awaits           *)
(***************************************************************************)
\* results of pod_api.get(name).await and nodes_api.get(hostname).await
PodResults ==
    {[ok |-> FALSE, node_name |-> None]}
    \cup {[ok |-> TRUE, node_name |-> h] : h \in Opt(HostStrings)}

LabelSets == {{<<"zone", "a">>}}

NodeResults ==
    {[ok |-> FALSE, labels |-> None]}
    \cup {[ok |-> TRUE, labels |-> l] : l \in Opt(LabelSets)}

\* let mut hostname = sentry_event.source_host;  (an Option in process: it is
\* tested with is_none(), so a source without host leaves it None)
SourceHostOption(r) == r.host

\* mutant: the node lookup is made whether or not a host is known
AfterHostUnconditional(h) == "node_get"

\* where process goes once hostname h is settled: the node lookup or the filters
AfterHost(h) == IF IsSome(h) THEN "node_get" ELSE "filter"

\* the server name of an alert whose event carries the optional host h: the
\* host, or the "n/a" sentinel when none was resolved
ServerNameOf(h) == UnwrapOr(h, "n/a")

\* mutant: the event handed on keeps the host of the raw event
ProcessorEventStaleHost(t) ==
    [ type_              |-> SentryEventFrom(raw[t]).type_,
      level              |-> SentryEventFrom(raw[t]).level,
      component          |-> SentryEventFrom(raw[t]).component,
      source_host        |-> SourceHostOption(raw[t]),
      reason             |-> SentryEventFrom(raw[t]).reason,
      metadata           |-> SentryEventFrom(raw[t]).metadata,
      namespace          |-> SentryEventFrom(raw[t]).namespace,
      kind               |-> SentryEventFrom(raw[t]).kind,
      name               |-> SentryEventFrom(raw[t]).name,
      message            |-> SentryEventFrom(raw[t]).message,
      creation_timestamp |-> SentryEventFrom(raw[t]).creation_timestamp,
      node_labels        |-> node_labels[t] ]

\* the SentryEvent of task t as Processor::process holds it at the filters
ProcessorEvent(t) ==
    [ type_              |-> SentryEventFrom(raw[t]).type_,
      level              |-> SentryEventFrom(raw[t]).level,
      component          |-> SentryEventFrom(raw[t]).component,
      source_host        |-> hostname[t],
      reason             |-> SentryEventFrom(raw[t]).reason,
      metadata           |-> SentryEventFrom(raw[t]).metadata,
      namespace          |-> SentryEventFrom(raw[t]).namespace,
      kind               |-> SentryEventFrom(raw[t]).kind,
      name               |-> SentryEventFrom(raw[t]).name,
      message            |-> SentryEventFrom(raw[t]).message,
      creation_timestamp |-> SentryEventFrom(raw[t]).creation_timestamp,
      node_labels        |-> node_labels[t] ]

\* mutant: the pod lookup is made for every Pod, whether its host is known
ProcessStartLooksUpEveryPod(t, r) ==
    /\ pc[t] = "idle"
    /\ raw' = [raw EXCEPT ![t] = r]
    /\ IF ~LevelParses(r)
       THEN /\ pc' = [pc EXCEPT ![t] = "panicked"]
            /\ UNCHANGED hostname
       ELSE /\ hostname' = [hostname EXCEPT ![t] = SourceHostOption(r)]
            /\ pc' = [pc EXCEPT ![t] =
                        IF r.kind = Some("Pod")
                        THEN "pod_get"
                        ELSE AfterHost(SourceHostOption(r))]
    /\ UNCHANGED <<cfg, node_labels, sent, captured, crumb, calls>>

\* process(event) up to its first await (or to the filters when it awaits
\* nothing); SentryEvent::from panics on a level that does not parse
ProcessStart(t, r) ==
    /\ pc[t] = "idle"
    /\ raw' = [raw EXCEPT ![t] = r]
    /\ IF ~LevelParses(r)
       THEN /\ pc' = [pc EXCEPT ![t] = "panicked"]
            /\ UNCHANGED hostname
       ELSE /\ hostname' = [hostname EXCEPT ![t] = SourceHostOption(r)]
            /\ pc' = [pc EXCEPT ![t] =
                        IF IsNone(SourceHostOption(r)) /\ r.kind = Some("Pod")
                        THEN "pod_get"
                        ELSE AfterHost(SourceHostOption(r))]
    /\ UNCHANGED <<cfg, node_labels, sent, captured, crumb, calls>>

\* mutant: a failed pod lookup aborts the handler
PodGetUnwraps(t, res) ==
    /\ pc[t] = "pod_get"
    /\ calls' = [calls EXCEPT ![t] = Append(@, "pod_get")]
    /\ hostname' = [hostname EXCEPT ![t] = IF res.ok THEN res.node_name ELSE @]
    /\ pc' = [pc EXCEPT ![t] = IF res.ok THEN AfterHost(hostname'[t]) ELSE "panicked"]
    /\ UNCHANGED <<cfg, raw, node_labels, sent, captured, crumb>>

\* self.pod_api.get(&sentry_event.name).await returns res
PodGet(t, res) ==
    /\ pc[t] = "pod_get"
    /\ calls' = [calls EXCEPT ![t] = Append(@, "pod_get")]
    /\ hostname' = [hostname EXCEPT ![t] = IF res.ok THEN res.node_name ELSE @]
    /\ pc' = [pc EXCEPT ![t] = AfterHost(hostname'[t])]
    /\ UNCHANGED <<cfg, raw, node_labels, sent, captured, crumb>>

\* self.nodes_api.get(hostname).await returns res
NodeGet(t, res) ==
    /\ pc[t] = "node_get"
    /\ calls' = [calls EXCEPT ![t] = Append(@, "node_get")]
    /\ node_labels' = [node_labels EXCEPT ![t] =
                         IF res.ok THEN UnwrapOr(res.labels, {}) ELSE @]
    /\ pc' = [pc EXCEPT ![t] = "filter"]
    /\ UNCHANGED <<cfg, raw, hostname, sent, captured, crumb>>

\* mutant: an event below the level threshold returns before the breadcrumb
DecideReturnsBelowLevel(t) ==
    /\ pc[t] = "filter"
    /\ pc' = [pc EXCEPT ![t] = "done"]
    /\ IF Suppressed(ProcessorEvent(t), cfg) \/ ~ShouldSend(ProcessorEvent(t), cfg)
       THEN UNCHANGED <<sent, crumb, calls>>
       ELSE /\ sent' = [sent EXCEPT ![t] = Some(ProcessorEvent(t))]
            /\ crumb' = [crumb EXCEPT ![t] = Some(BreadcrumbOf(ProcessorEvent(t)))]
            /\ calls' = [calls EXCEPT ![t] = @ \o <<"sender", "add_breadcrumb">>]
    /\ UNCHANGED <<cfg, raw, hostname, node_labels, captured>>

\* the rest of process: filters, level test, sender, breadcrumb
Decide(t) ==
    /\ pc[t] = "filter"
    /\ pc' = [pc EXCEPT ![t] = "done"]
    /\ IF Suppressed(ProcessorEvent(t), cfg)
       THEN UNCHANGED <<sent, crumb, calls>>
       ELSE /\ sent' = [sent EXCEPT ![t] =
                          IF ShouldSend(ProcessorEvent(t), cfg)
                          THEN Some(ProcessorEvent(t)) ELSE None]
            /\ crumb' = [crumb EXCEPT ![t] = Some(BreadcrumbOf(ProcessorEvent(t)))]
            /\ calls' = [calls EXCEPT ![t] =
                           @ \o (IF ShouldSend(ProcessorEvent(t), cfg)
                                 THEN <<"sender">> ELSE <<>>)
                             \o <<"add_breadcrumb">>]
    /\ UNCHANGED <<cfg, raw, hostname, node_labels, captured>>

(***************************************************************************)
(* main.rs: the closure watch_loop runs for each event of the stream       *)
(***************************************************************************)
WatchLoopEvent(t, r) ==
    /\ pc[t] = "idle"
    /\ raw' = [raw EXCEPT ![t] = r]
    /\ IF ~LevelParses(r)
       THEN /\ pc' = [pc EXCEPT ![t] = "panicked"]
            /\ UNCHANGED <<captured, crumb, calls>>
       ELSE /\ pc' = [pc EXCEPT ![t] = "done"]
            /\ IF WatchSuppressed(SentryEventFrom(r), cfg)
               THEN UNCHANGED <<captured, crumb, calls>>
               ELSE /\ captured' = [captured EXCEPT ![t] =
                                      IF WatchShouldSend(SentryEventFrom(r), cfg)
                                      THEN Some(ToV7(SentryEventFrom(r))) ELSE None]
                    /\ crumb' = [crumb EXCEPT ![t] =
                                   Some(BreadcrumbOf(SentryEventFrom(r)))]
                    /\ calls' = [calls EXCEPT ![t] =
                                   @ \o (IF WatchShouldSend(SentryEventFrom(r), cfg)
                                         THEN <<"capture_event">> ELSE <<>>)
                                     \o <<"add_breadcrumb">>]
    /\ UNCHANGED <<cfg, hostname, node_labels, sent>>

\* the handler has returned: the task takes the next event of the stream with
\* fresh locals
NextEvent(t) ==
    /\ pc[t] = "done"
    /\ pc' = [pc EXCEPT ![t] = "idle"]
    /\ raw' = [raw EXCEPT ![t] = NoRaw]
    /\ hostname' = [hostname EXCEPT ![t] = None]
    /\ node_labels' = [node_labels EXCEPT ![t] = {}]
    /\ sent' = [sent EXCEPT ![t] = None]
    /\ captured' = [captured EXCEPT ![t] = None]
    /\ crumb' = [crumb EXCEPT ![t] = None]
    /\ calls' = [calls EXCEPT ![t] = <<>>]
    /\ UNCHANGED cfg

(***************************************************************************)
(* Observation of the breadcrumb trail: the creation timestamp of the most *)
(* recent event that got past the filters (0: none yet) and the greatest   *)
(* such timestamp so far.  The code keeps neither.                         *)
(***************************************************************************)
\* the creation timestamp a step of task t put on the trail, 0 when none
AdmittedTime(t) ==
    IF crumb'[t] # crumb[t] /\ IsSome(crumb'[t]) /\ IsSome(crumb'[t][1].timestamp)
    THEN crumb'[t][1].timestamp[1]
    ELSE 0

Track(t) ==
    /\ lastAdmitted' = IF AdmittedTime(t) # 0 THEN AdmittedTime(t) ELSE lastAdmitted
    /\ maxAdmitted' = IF AdmittedTime(t) > maxAdmitted THEN AdmittedTime(t)
                      ELSE maxAdmitted

Untracked == UNCHANGED <<lastAdmitted, maxAdmitted>>

(***************************************************************************)
(* Specifications                                                          *)
(***************************************************************************)
InitTasks ==
    /\ pc = [t \in Tasks |-> "idle"]
    /\ raw = [t \in Tasks |-> NoRaw]
    /\ hostname = [t \in Tasks |-> None]
    /\ node_labels = [t \in Tasks |-> {}]
    /\ sent = [t \in Tasks |-> None]
    /\ captured = [t \in Tasks |-> None]
    /\ crumb = [t \in Tasks |-> None]
    /\ calls = [t \in Tasks |-> <<>>]
    /\ lastAdmitted = 0
    /\ maxAdmitted = 0

Init ==
    /\ cfg \in Configs
    /\ InitTasks

\* one ordered stream of events, each handled to the end before the next, by
\* either revision of the handler
Next ==
    \E t \in StreamTasks :
        \/ pc[t] = "idle" /\ (\E r \in RawEvents : ProcessStart(t, r)) /\ Untracked
        \/ pc[t] = "pod_get" /\ (\E res \in PodResults : PodGet(t, res)) /\ Untracked
        \/ pc[t] = "node_get" /\ (\E res \in NodeResults : NodeGet(t, res)) /\ Untracked
        \/ Decide(t) /\ Untracked
        \/ pc[t] = "idle" /\ (\E r \in RawEvents : WatchLoopEvent(t, r)) /\ Untracked
        \/ NextEvent(t) /\ Untracked

Spec == Init /\ [][Next]_vars

\* the configuration watch_loop reads from an empty environment, and one
\* whose allow-list names another namespace
ConcConfigs ==
    { [ event_namespaces |-> ns, exclude_components |-> {}, exclude_reasons |-> {},
        exclude_namespaces |-> {}, event_levels |-> {"warning", "error"} ]
      : ns \in {{}, {"default"}} }

\* a smaller family of events for the specifications that follow several
\* events at once
ConcEvents ==
    [ type_              : {Some("Warning"), Some("Normal"), Some("Bogus")},
      component          : {Some("kubelet")},
      host               : Opt(HostStrings),
      reason             : {Some("Failed")},
      inv_namespace      : {Some("prod")},
      meta_namespace     : {None},
      kind               : {Some(k) : k \in KindStrings},
      name               : {Some(n) : n \in NameStrings},
      message            : {Some(m) : m \in MessageStrings},
      creation_timestamp : Opt(Times) ]

ConcInit ==
    /\ cfg \in ConcConfigs
    /\ InitTasks

\* the stream of Next, with the trail observed
GuardNext ==
    \E t \in StreamTasks :
        \/ pc[t] = "idle" /\ (\E r \in ConcEvents : ProcessStart(t, r)) /\ Track(t)
        \/ pc[t] = "pod_get" /\ (\E res \in PodResults : PodGet(t, res)) /\ Track(t)
        \/ pc[t] = "node_get" /\ (\E res \in NodeResults : NodeGet(t, res)) /\ Track(t)
        \/ Decide(t) /\ Track(t)
        \/ pc[t] = "idle" /\ (\E r \in ConcEvents : WatchLoopEvent(t, r)) /\ Track(t)
        \/ NextEvent(t) /\ Track(t)

GuardSpec == ConcInit /\ [][GuardNext]_vars

\* Processor::process(&self, ..) called by every task at once: the calls
\* interleave at their awaits
ConcNext ==
    \E t \in Tasks :
        \/ pc[t] = "idle" /\ (\E r \in ConcEvents : ProcessStart(t, r)) /\ Track(t)
        \/ pc[t] = "pod_get" /\ (\E res \in PodResults : PodGet(t, res)) /\ Track(t)
        \/ pc[t] = "node_get" /\ (\E res \in NodeResults : NodeGet(t, res)) /\ Track(t)
        \/ Decide(t) /\ Track(t)
        \/ NextEvent(t) /\ Track(t)

ConcSpec == ConcInit /\ [][ConcNext]_vars

(***************************************************************************)
(* Vocabulary of the properties, stated on the raw event and the lists     *)
(***************************************************************************)
\* task t holds an event that normalised and has not yet been handed back
Normalised(t) == pc[t] \in {"pod_get", "node_get", "filter", "done"}

\* the four exclusion rules, read off the raw event r and the lists c
RuleComponent(r, c) == UnwrapOr(r.component, "") \in c.exclude_components
RuleReason(r, c) == UnwrapOr(r.reason, "") \in c.exclude_reasons
DerivedNamespace(r) ==
    IF IsSome(r.inv_namespace) THEN r.inv_namespace[1]
    ELSE IF IsSome(r.meta_namespace) THEN r.meta_namespace[1]
    ELSE "default"
RuleExcludeNamespace(r, c) == DerivedNamespace(r) \in c.exclude_namespaces
RuleAllowList(r, c) ==
    c.event_namespaces # {} /\ DerivedNamespace(r) \notin c.event_namespaces
MatchesExclusion(r, c) ==
    RuleComponent(r, c) \/ RuleReason(r, c) \/ RuleExcludeNamespace(r, c)
    \/ RuleAllowList(r, c)

Severity(r) == SentryEventFrom(r).level

\* what a task has put into the two sinks for its event
AlertSent(t) == IsSome(sent[t]) \/ IsSome(captured[t])
AlertCalls(t) ==
    Len(SelectSeq(calls[t], LAMBDA c : c \in {"sender", "capture_event"}))
TrailCalls(t) == Len(SelectSeq(calls[t], LAMBDA c : c = "add_breadcrumb"))
NothingRecorded(t) ==
    ~AlertSent(t) /\ crumb[t] = None /\ AlertCalls(t) = 0 /\ TrailCalls(t) = 0

\* C1: an event whose component is excluded and whose severity is Error sends
\* no alert and records no trail entry, whatever the accepted levels are
C1_ExclusionBeatsEscalation ==
    \A t \in Tasks :
        (Normalised(t) /\ RuleComponent(raw[t], cfg) /\ Severity(raw[t]) = "Error")
            => NothingRecorded(t)

C1_Witness ==
    \E t \in Tasks :
        /\ pc[t] = "done"
        /\ RuleComponent(raw[t], cfg)
        /\ Severity(raw[t]) = "Error"
        /\ "error" \in cfg.event_levels
        /\ ~RuleReason(raw[t], cfg) /\ ~RuleExcludeNamespace(raw[t], cfg)
        /\ ~RuleAllowList(raw[t], cfg)
        /\ Len(calls[t]) > 0

\* C2: a processed Error event that matches no exclusion rule has been sent
\* as an alert, also when "error" is not an accepted level
C2_ForcedEscalation ==
    \A t \in Tasks :
        (pc[t] = "done" /\ Severity(raw[t]) = "Error"
            /\ ~MatchesExclusion(raw[t], cfg))
            => (AlertSent(t) /\ AlertCalls(t) = 1)

C2_Witness ==
    \E t \in Tasks :
        /\ pc[t] = "done"
        /\ Severity(raw[t]) = "Error"
        /\ ~MatchesExclusion(raw[t], cfg)
        /\ cfg.event_levels = {"warning"}
        /\ IsSome(sent[t])
        /\ sent[t][1].level = "Error"

\* the trail entry the event r is to leave: {name, namespace, level, message,
\* timestamp}
ExpectedTrailEntry(r) ==
    [ name      |-> UnwrapOr(r.name, ""),
      namespace |-> DerivedNamespace(r),
      level     |-> Severity(r),
      message   |-> r.message,
      timestamp |-> r.creation_timestamp ]

\* C7: a processed event that matches no exclusion rule has left exactly one
\* trail entry with its name, namespace, level, message and timestamp, alert
\* or no alert; one that matches an exclusion rule has left none
C7_TrailEntryRecorded ==
    \A t \in Tasks :
        pc[t] = "done" =>
            IF MatchesExclusion(raw[t], cfg)
            THEN crumb[t] = None /\ TrailCalls(t) = 0
            ELSE crumb[t] = Some(ExpectedTrailEntry(raw[t])) /\ TrailCalls(t) = 1

C7_Witness ==
    \E t \in Tasks :
        /\ pc[t] = "done"
        /\ ~MatchesExclusion(raw[t], cfg)
        /\ Severity(raw[t]) = "Info"
        /\ ~AlertSent(t)
        /\ IsSome(crumb[t])
        /\ crumb[t][1].timestamp = Some(MaxTime)
        /\ "node_get" \in {calls[t][i] : i \in 1..Len(calls[t])}

\* the alert test on the severity of r and the accepted labels c
Accepted(r, c) ==
    LevelToString(Severity(r)) \in c.event_levels \/ Severity(r) = "Error"

NoExclusionLists(c) ==
    /\ c.exclude_components = {} /\ c.exclude_reasons = {}
    /\ c.exclude_namespaces = {} /\ c.event_namespaces = {}

\* C8: for a processed candidate event an alert is sent exactly when the
\* lowercase name of its severity is an accepted label or the severity is
\* Error; a Warning with labels {warning, error} and no exclusion lists
\* reaches the sender with kind "warning", an Info with those labels is not
\* alerted
C8_AlertDecision ==
    \A t \in Tasks :
        (pc[t] = "done" /\ ~MatchesExclusion(raw[t], cfg)) =>
            /\ AlertSent(t) <=> Accepted(raw[t], cfg)
            /\ AlertCalls(t) = IF Accepted(raw[t], cfg) THEN 1 ELSE 0
            /\ (cfg.event_levels = {"warning", "error"} /\ NoExclusionLists(cfg)
                /\ raw[t].type_ = Some("Warning"))
                   => \/ IsSome(sent[t]) /\ sent[t][1].type_ = "warning"
                      \/ IsSome(captured[t]) /\ captured[t][1].level = "Warning"
            /\ (cfg.event_levels = {"warning", "error"} /\ Severity(raw[t]) = "Info")
                   => ~AlertSent(t)

C8_Witness ==
    \E t \in Tasks :
        /\ pc[t] = "done"
        /\ cfg.event_levels = {"warning", "error"}
        /\ NoExclusionLists(cfg)
        /\ raw[t].type_ = Some("Warning")
        /\ IsSome(sent[t])
        /\ sent[t][1].type_ = "warning"
        /\ calls[t][Len(calls[t]) - 1] = "sender"

\* C9: with a non-empty allow-list an event whose namespace is not on it
\* sends no alert and leaves no trail entry; an event with no namespace on
\* the involved object nor in the metadata is in namespace "default", and is
\* suppressed unless "default" is on the list
C9_AllowListExclusive ==
    \A t \in Tasks :
        Normalised(t) =>
            /\ RuleAllowList(raw[t], cfg) => NothingRecorded(t)
            /\ (raw[t].inv_namespace = None /\ raw[t].meta_namespace = None) =>
                  /\ SentryEventFrom(raw[t]).namespace = "default"
                  /\ (cfg.event_namespaces # {} /\ "default" \notin cfg.event_namespaces)
                        => NothingRecorded(t)
                  /\ IsSome(crumb[t]) => crumb[t][1].namespace = "default"

C9_Witness ==
    \E t \in Tasks :
        /\ pc[t] = "done"
        /\ cfg.event_namespaces = {"prod"}
        /\ raw[t].inv_namespace = None /\ raw[t].meta_namespace = None
        /\ ~RuleComponent(raw[t], cfg) /\ ~RuleReason(raw[t], cfg)
        /\ ~RuleExcludeNamespace(raw[t], cfg)
        /\ Severity(raw[t]) = "Error"
        /\ NothingRecorded(t)

\* C10: an event whose kind names no severity is rejected without an alert
\* and without stopping the stream: its handler returns
C10_MalformedNeverCrashes ==
    \A t \in Tasks :
        (pc[t] # "idle" /\ ~LevelParses(raw[t]))
            => (pc[t] = "done" /\ ~AlertSent(t))

(***************************************************************************)
(* The Arrival-Order Guard.  An event is admitted when it goes on from the *)
(* filters to the level test and the trail; the watermark is lastAdmitted, *)
(* the creation timestamp of the most recent admitted event (0: empty).    *)
(***************************************************************************)
\* the step finishes the handling of task t's event
Finishes(t) == pc[t] # "done" /\ pc'[t] = "done"

\* the finishing step admitted the event of t
Admits(t) == IsSome(crumb'[t])

\* C3: no admitted event that carries a creation timestamp is strictly older
\* than an event admitted before it: the last admitted timestamp is the
\* greatest admitted so far
C3_WatermarkMonotone ==
    lastAdmitted # 0 => lastAdmitted >= maxAdmitted

\* C4: a candidate event is admitted exactly when it has no creation
\* timestamp, or the watermark is empty, or the watermark is not greater than
\* its timestamp
C4_AdmissionRule ==
    [][ \A t \in Tasks :
          (Finishes(t) /\ ~MatchesExclusion(raw'[t], cfg)) =>
              (Admits(t) <=>
                  \/ raw'[t].creation_timestamp = None
                  \/ lastAdmitted = 0
                  \/ lastAdmitted <= raw'[t].creation_timestamp[1]) ]_vars

\* C5: the watermark becomes the timestamp of an admitted event and is left
\* alone otherwise, so it never decreases
C5_WatermarkNeverDecreases ==
    [][ lastAdmitted' >= lastAdmitted ]_vars

\* C6: with the stages of several events interleaved, no event is admitted
\* after an event with a strictly newer timestamp was admitted
C6_AtomicGuard ==
    [][ \A t, u \in Tasks :
          (t # u /\ Finishes(t) /\ Admits(t)
              /\ IsSome(raw[t].creation_timestamp)
              /\ pc[u] = "done" /\ IsSome(crumb[u])
              /\ IsSome(crumb[u][1].timestamp))
            => crumb[u][1].timestamp[1] <= raw[t].creation_timestamp[1] ]_vars

(***************************************************************************)
(* Normalisation and transform on a wide family of events: kinds in any    *)
(* letter case, empty and absent strings.  Every level is accepted, so     *)
(* each event that normalises reaches the sink transform.                  *)
(***************************************************************************)
PureTypeStrings ==
    {"Warning", "WARNING", "warning", "Normal", "NORMAL", "normal",
     "Error", "Fatal", "Debug", "Info", "Bogus"}

PureEvents ==
    [ type_              : Opt(PureTypeStrings),
      component          : {Some("kubelet")},
      host               : {None},
      reason             : Opt({"", "Failed"}),
      inv_namespace      : Opt({"", "kube-system"}),
      meta_namespace     : Opt({"", "staging"}),
      kind               : Opt({"", "Pod"}),
      name               : Opt({"", "coredns-xyz"}),
      message            : {Some(m) : m \in MessageStrings},
      creation_timestamp : {Some(MaxTime)} ]

PureConfigs ==
    { [ event_namespaces |-> {}, exclude_components |-> {}, exclude_reasons |-> {},
        exclude_namespaces |-> {},
        event_levels |-> {"debug", "info", "warning", "error", "fatal"} ] }

PureInit ==
    /\ cfg \in PureConfigs
    /\ InitTasks

PureNext ==
    \E t \in StreamTasks :
        \/ pc[t] = "idle" /\ (\E r \in PureEvents : ProcessStart(t, r)) /\ Untracked
        \/ pc[t] = "pod_get" /\ (\E res \in PodResults : PodGet(t, res)) /\ Untracked
        \/ pc[t] = "node_get" /\ (\E res \in NodeResults : NodeGet(t, res)) /\ Untracked
        \/ Decide(t) /\ Untracked
        \/ pc[t] = "idle" /\ (\E r \in PureEvents : WatchLoopEvent(t, r)) /\ Untracked
        \/ NextEvent(t) /\ Untracked

PureSpec == PureInit /\ [][PureNext]_vars

\* the severity a raw kind names, letter case aside ("normal" names Info);
\* "" when it names none
NamedSeverity(k) ==
    CASE k \in {"Normal", "NORMAL", "normal", "Info"} -> "Info"
      [] k \in {"Warning", "WARNING", "warning"}       -> "Warning"
      [] k \in {"Error"}                               -> "Error"
      [] k \in {"Fatal"}                               -> "Fatal"
      [] k \in {"Debug"}                               -> "Debug"
      [] OTHER                                         -> ""

\* the lowercase spelling of a raw kind
LowercaseSpelling(k) ==
    CASE k \in {"Normal", "NORMAL", "normal"}    -> "normal"
      [] k \in {"Warning", "WARNING", "warning"} -> "warning"
      [] k = "Error" -> "error"
      [] k = "Fatal" -> "fatal"
      [] k = "Debug" -> "debug"
      [] k = "Info"  -> "info"
      [] k = "Bogus" -> "bogus"
      [] OTHER       -> k

\* the lowercase name of a severity
SeverityLabel(l) ==
    CASE l = "Info" -> "info" [] l = "Warning" -> "warning" [] l = "Error" -> "error"
      [] l = "Fatal" -> "fatal" [] l = "Debug" -> "debug"

\* C13: normalisation lowercases the raw kind into eventKind; "normal" in any
\* letter case gives Info, a kind that names a severity in any letter case
\* gives that severity, and the string form of the severity is its lowercase
\* name
C13_SeverityDerivation ==
    \A t \in Tasks :
        (pc[t] # "idle" /\ IsSome(raw[t].type_)
            /\ NamedSeverity(raw[t].type_[1]) # "") =>
            /\ pc[t] # "panicked"
            /\ SentryEventFrom(raw[t]).type_ = LowercaseSpelling(raw[t].type_[1])
            /\ SentryEventFrom(raw[t]).level = NamedSeverity(raw[t].type_[1])
            /\ LevelToString(SentryEventFrom(raw[t]).level)
                  = SeverityLabel(NamedSeverity(raw[t].type_[1]))
            /\ IsSome(crumb[t]) => crumb[t][1].level = NamedSeverity(raw[t].type_[1])
            /\ IsSome(sent[t]) =>
                  /\ sent[t][1].type_ = LowercaseSpelling(raw[t].type_[1])
                  /\ sent[t][1].level = NamedSeverity(raw[t].type_[1])
            /\ IsSome(captured[t]) =>
                  captured[t][1].level = NamedSeverity(raw[t].type_[1])

C13_Witness ==
    \E t \in Tasks :
        /\ pc[t] = "done"
        /\ raw[t].type_ = Some("NORMAL")
        /\ IsSome(sent[t])
        /\ sent[t][1].type_ = "normal"
        /\ sent[t][1].level = "Info"

\* the values of the raw event the fingerprint and the culprit are made of
ReasonOf(r) == UnwrapOr(r.reason, "")
NameOf(r) == UnwrapOr(r.name, "")
KindOf(r) == UnwrapOr(r.kind, "")

\* the non-empty values among reason, namespace, name, kind, in that order
ExpectedFingerprint(r) ==
    SelectSeq(<<ReasonOf(r), SentryEventFrom(r).namespace, NameOf(r), KindOf(r)>>,
              LAMBDA v : v # "")

\* C14: the fingerprint of an alert is the sequence of the non-empty values
\* among reason, namespace, name, kind, in that order
C14_FingerprintComposition ==
    \A t \in Tasks :
        pc[t] = "done" =>
            /\ IsSome(captured[t]) =>
                  captured[t][1].fingerprint = ExpectedFingerprint(raw[t])
            /\ IsSome(sent[t]) =>
                  ToV7(sent[t][1]).fingerprint = ExpectedFingerprint(raw[t])

C14_Witness ==
    \E t \in Tasks :
        /\ pc[t] = "done"
        /\ raw[t].reason = Some("Failed") /\ raw[t].inv_namespace = Some("kube-system")
        /\ raw[t].name = Some("coredns-xyz") /\ raw[t].kind = Some("Pod")
        /\ IsSome(captured[t])
        /\ captured[t][1].fingerprint = <<"Failed", "kube-system", "coredns-xyz", "Pod">>

\* C15: the namespace of a canonical event is never the empty string
C15_NamespaceNeverEmpty ==
    \A t \in Tasks :
        /\ Normalised(t) => SentryEventFrom(raw[t]).namespace # ""
        /\ IsSome(crumb[t]) => crumb[t][1].namespace # ""

\* C16 as claimed: the culprit is "<namespace>/<name> <reason>" when the name
\* is non-empty and just "<namespace>" when it is empty
C16_CulpritAsClaimed ==
    \A t \in Tasks :
        IsSome(captured[t]) =>
            captured[t][1].culprit =
                IF NameOf(raw[t]) # ""
                THEN SentryEventFrom(raw[t]).namespace \o "/" \o NameOf(raw[t])
                        \o " " \o ReasonOf(raw[t])
                ELSE SentryEventFrom(raw[t]).namespace

\* C16 amended: the culprit is "<namespace>/<name> <reason>" when namespace
\* and name are both non-empty, and "<namespace> <reason>" otherwise
C16_CulpritFormat ==
    \A t \in Tasks :
        /\ IsSome(captured[t]) =>
              captured[t][1].culprit =
                  IF SentryEventFrom(raw[t]).namespace # "" /\ NameOf(raw[t]) # ""
                  THEN SentryEventFrom(raw[t]).namespace \o "/" \o NameOf(raw[t])
                          \o " " \o ReasonOf(raw[t])
                  ELSE SentryEventFrom(raw[t]).namespace \o " " \o ReasonOf(raw[t])
        /\ IsSome(sent[t]) =>
              ToV7(sent[t][1]).culprit =
                  IF SentryEventFrom(raw[t]).namespace # "" /\ NameOf(raw[t]) # ""
                  THEN SentryEventFrom(raw[t]).namespace \o "/" \o NameOf(raw[t])
                          \o " " \o ReasonOf(raw[t])
                  ELSE SentryEventFrom(raw[t]).namespace \o " " \o ReasonOf(raw[t])

C16_Witness ==
    \E t \in Tasks :
        /\ pc[t] = "done"
        /\ raw[t].name = Some("")
        /\ IsSome(captured[t])
        /\ captured[t][1].culprit = "kube-system Failed"

\* C17: the filter chain suppresses exactly when the component is excluded,
\* or the reason is excluded, or the namespace is excluded, or the allow-list
\* is non-empty and lacks the namespace; a namespace on both namespace lists
\* is suppressed, and empty lists suppress nothing
C17_FilterChainResult ==
    \A t \in Tasks :
        Normalised(t) =>
            /\ Suppressed(ProcessorEvent(t), cfg) <=> MatchesExclusion(raw[t], cfg)
            /\ WatchSuppressed(SentryEventFrom(raw[t]), cfg)
                  <=> MatchesExclusion(raw[t], cfg)
            /\ pc[t] = "done" =>
                  /\ NothingRecorded(t) <=> MatchesExclusion(raw[t], cfg)
                  /\ (DerivedNamespace(raw[t]) \in cfg.event_namespaces
                      /\ DerivedNamespace(raw[t]) \in cfg.exclude_namespaces)
                        => NothingRecorded(t)
                  /\ NoExclusionLists(cfg) => ~NothingRecorded(t)

C17_Witness ==
    \E t \in Tasks :
        /\ pc[t] = "done"
        /\ cfg.event_namespaces = {"prod"} /\ cfg.exclude_namespaces = {"prod"}
        /\ DerivedNamespace(raw[t]) = "prod"
        /\ ~RuleComponent(raw[t], cfg) /\ ~RuleReason(raw[t], cfg)
        /\ Severity(raw[t]) = "Warning" /\ "warning" \in cfg.event_levels
        /\ NothingRecorded(t)

\* the fields of an alert payload other than the host
NonHostFields(v) ==
    [ message |-> v.message, culprit |-> v.culprit, timestamp |-> v.timestamp,
      extra |-> v.extra, fingerprint |-> v.fingerprint, level |-> v.level,
      tags |-> v.tags ]

\* the lookups task t made found nothing: no host and no node label
LookupsCameBackEmpty(t) == hostname[t] = None /\ node_labels[t] = {}

\* C11: an event whose lookups fail or come back empty is still processed to
\* the end: no lookup aborts the handler, the alert and trail decisions are
\* those the raw event and the lists alone give, and the non-host fields of
\* the alert payload are those of the event without any enrichment
C11_EnrichmentFallback ==
    \A t \in Tasks :
        /\ pc[t] = "panicked" => ~LevelParses(raw[t])
        /\ pc[t] = "done" =>
              /\ AlertSent(t) <=>
                    (~MatchesExclusion(raw[t], cfg) /\ Accepted(raw[t], cfg))
              /\ IsSome(crumb[t]) <=> ~MatchesExclusion(raw[t], cfg)
        /\ IsSome(sent[t]) =>
              NonHostFields(ToV7(sent[t][1]))
                  = NonHostFields(ToV7(SentryEventFrom(raw[t])))

C11_Witness ==
    \E t \in Tasks :
        /\ pc[t] = "done"
        /\ calls[t] = <<"pod_get", "sender", "add_breadcrumb">>
        /\ LookupsCameBackEmpty(t)
        /\ IsSome(sent[t])
        /\ sent[t][1].source_host = None

\* the raw event names its host
HostKnown(r) == IsSome(SourceHostOption(r))

\* the lookups task t has made so far
Lookups(t) == SelectSeq(calls[t], LAMBDA c : c \in {"pod_get", "node_get"})

\* C12 as stated: for an event whose host is known, enrichment makes no lookup
\* and changes no field, node labels included
C12_KnownHostNoOp ==
    \A t \in Tasks :
        HostKnown(raw[t]) =>
            /\ pc[t] \notin {"pod_get", "node_get"}
            /\ Lookups(t) = <<>>
            /\ node_labels[t] = {}
            /\ hostname[t] \in {None, SourceHostOption(raw[t])}

\* C12: for an event whose host is known, enrichment makes no pod lookup and
\* keeps the host; it makes the node-label lookup, once, and of the fields of
\* the event only the node labels can change
C12_KnownHostEnrichment ==
    \A t \in Tasks :
        HostKnown(raw[t]) =>
            /\ pc[t] # "pod_get"
            /\ Lookups(t) \in {<<>>, <<"node_get">>}
            /\ hostname[t] \in {None, SourceHostOption(raw[t])}
            /\ pc[t] = "node_get" =>
                  /\ Lookups(t) = <<>> /\ node_labels[t] = {}
                  /\ hostname[t] = SourceHostOption(raw[t])
            /\ pc[t] = "filter" =>
                  /\ Lookups(t) = <<"node_get">>
                  /\ hostname[t] = SourceHostOption(raw[t])
            /\ IsSome(sent[t]) =>
                  /\ Lookups(t) = <<"node_get">>
                  /\ sent[t][1].source_host = SourceHostOption(raw[t])

C12_Witness ==
    \E t \in Tasks :
        /\ HostKnown(raw[t])
        /\ pc[t] = "done" /\ IsSome(sent[t])
        /\ Lookups(t) = <<"node_get">>
        /\ node_labels[t] # {}

ExpectedServerName(t) ==
    IF HostKnown(raw[t]) THEN raw[t].host[1]
    ELSE IF IsSome(hostname[t]) THEN hostname[t][1]
    ELSE "n/a"

UnrelatedObjects(t, u) == raw[t].kind # raw[u].kind \/ raw[t].name # raw[u].name

\* C19: the watermark is shared by all objects: an event whose timestamp is
\* strictly older than that of an event already admitted for an unrelated
\* object is rejected, leaves no trail entry and sends no alert
C19_GlobalWatermark ==
    [][ \A t, u \in Tasks :
          (/\ t # u /\ Finishes(t)
           /\ pc[u] = "done" /\ IsSome(crumb[u])
           /\ IsSome(crumb[u][1].timestamp)
           /\ IsSome(raw[t].creation_timestamp)
           /\ raw[t].creation_timestamp[1] < crumb[u][1].timestamp[1]
           /\ UnrelatedObjects(t, u))
            => (~Admits(t) /\ sent'[t] = None) ]_vars

\* the orders in which one event can reach the lookups and the sinks: the
\* lookups first, then at most one alert, then at most one trail entry
StageSequences ==
    { l \o d : l \in {<<>>, <<"pod_get">>, <<"node_get">>, <<"pod_get", "node_get">>},
               d \in {<<>>, <<"add_breadcrumb">>, <<"sender", "add_breadcrumb">>,
                      <<"capture_event", "add_breadcrumb">>} }

\* the calls task t has made for its event are in stage order: nothing but
\* lookups before the filters have run, an alert only for an event the filter
\* chain passed, one alert and one trail entry at most
WellStaged(t) ==
    /\ calls[t] \in StageSequences
    /\ pc[t] \in {"pod_get", "node_get", "filter"} => calls[t] = Lookups(t)
    /\ AlertSent(t) => (pc[t] = "done" /\ ~MatchesExclusion(raw[t], cfg))
    /\ AlertCalls(t) <= 1 /\ TrailCalls(t) <= 1
    /\ AlertCalls(t) = 1 => IsSome(crumb[t])

\* the stage order of each event, the guard aside
StagesInOrder == \A t \in Tasks : WellStaged(t)

\* the Arrival-Order Guard passes the event task t is finishing
GuardPasses(t) ==
    \/ raw[t].creation_timestamp = None
    \/ lastAdmitted = 0
    \/ lastAdmitted <= raw[t].creation_timestamp[1]

\* C21: for each event, with the stages of several events interleaved, the
\* lookups come before the filter decision, an alert is sent only after the
\* filter chain and the guard have passed, there is at most one alert and one
\* trail entry, and the alert comes before the trail entry
C21_StageOrder ==
    [][ \A t \in Tasks :
          /\ WellStaged(t)'
          /\ (Finishes(t) /\ IsSome(sent'[t])) => GuardPasses(t) ]_vars

====
